---------------------------- MODULE Spec2Model ----------------------------
(***************************************************************************)
(* Model of featuretools/feature_base/feature_description_runon.py:        *)
(* describe_feature, generate_description, get_direct_description,         *)
(* get_aggregation_groupby and parse_json_metadata.                        *)
(*                                                                         *)
(* A Python str is a sequence of one-character strings, so slicing,        *)
(* upper(), startswith() and concatenation are computed character by       *)
(* character.  Python's None is the value PyNone.  A dict is a function    *)
(* whose domain holds keys <<"obj", x>> (an object used as key) and        *)
(* <<"name", s>> (a str used as key).                                      *)
(***************************************************************************)
EXTENDS Integers, Sequences, FiniteSets, TLC

VARIABLES
    feature,               \* argument: the feature to describe
    passed_descriptions,   \* argument feature_descriptions as passed by the caller
    passed_templates,      \* argument primitive_templates as passed by the caller
    metadata_file,         \* argument metadata_file: PyNone, "" or a path
    file,                  \* what the file system holds at that path
    feature_descriptions,  \* local variable of describe_feature
    primitive_templates,   \* local variable of describe_feature
    description,           \* local variable: outcome of generate_description
    result,                \* the returned str, PyNone while nothing is returned
    error,                 \* the exception describe_feature ended in, "" if none
    pc                     \* position in describe_feature

vars == <<feature, passed_descriptions, passed_templates, metadata_file, file,
          feature_descriptions, primitive_templates, description, result, error, pc>>

-----------------------------------------------------------------------------
(* String literals of the source, character by character.                  *)
\* 'the "'
Str_the_quote == <<"t","h","e"," ","\"">>
\* '"'
Str_quote == <<"\"">>
\* 'for each '
Str_for_each == <<"f","o","r"," ","e","a","c","h"," ">>
\* 'of the previous '
Str_of_the_previous == <<"o","f"," ","t","h","e"," ","p","r","e","v","i","o","u","s"," ">>
\* ' of '
Str_of_sp == <<" ","o","f"," ">>
\* 'of all instances of '
Str_of_all_instances_of == <<"o","f"," ","a","l","l"," ","i","n","s","t","a","n","c","e","s"," ","o","f"," ">>
\* 'where '
Str_where == <<"w","h","e","r","e"," ">>
\* ' is '
Str_is == <<" ","i","s"," ">>
\* ' '
Str_space == <<" ">>
\* ' the instance of "'
Str_the_instance_of == <<" ","t","h","e"," ","i","n","s","t","a","n","c","e"," ","o","f"," ","\"">>
\* '" associated with this instance of "'
Str_assoc_this_instance == <<"\""," ","a","s","s","o","c","i","a","t","e","d"," ","w","i","t","h"," ","t","h","i","s"," ","i","n","s","t","a","n","c","e"," ","o","f"," ","\"">>
\* '" associated with'
Str_assoc_with == <<"\""," ","a","s","s","o","c","i","a","t","e","d"," ","w","i","t","h">>
\* ' of'
Str_sp_of == <<" ","o","f">>
\* 'the '
Str_the == <<"t","h","e"," ">>
\* '" in "'
Str_in == <<"\""," ","i","n"," ","\"">>
\* 'None'
Str_None == <<"N","o","n","e">>
\* 'the result of applying '
Str_result_of_applying == <<"t","h","e"," ","r","e","s","u","l","t"," ","o","f"," ","a","p","p","l","y","i","n","g"," ">>
\* ' output from applying '
Str_output_from_applying == <<" ","o","u","t","p","u","t"," ","f","r","o","m"," ","a","p","p","l","y","i","n","g"," ">>
\* ' to '
Str_to == <<" ","t","o"," ">>
\* ', '
Str_comma == <<","," ">>
\* '1st'
Str_1st == <<"1","s","t">>
\* '2nd'
Str_2nd == <<"2","n","d">>
\* '3rd'
Str_3rd == <<"3","r","d">>
\* 'customers'
Str_customers == <<"c","u","s","t","o","m","e","r","s">>
\* 'sessions'
Str_sessions == <<"s","e","s","s","i","o","n","s">>
\* 'transactions'
Str_transactions == <<"t","r","a","n","s","a","c","t","i","o","n","s">>
\* 'id'
Str_id == <<"i","d">>
\* 'regions'
Str_regions == <<"r","e","g","i","o","n","s">>
\* 'population'
Str_population == <<"p","o","p","u","l","a","t","i","o","n">>
\* 'amount'
Str_amount == <<"a","m","o","u","n","t">>
\* 'device'
Str_device == <<"d","e","v","i","c","e">>
\* 'session_id'
Str_session_id == <<"s","e","s","s","i","o","n","_","i","d">>
\* 'desktop'
Str_desktop == <<"d","e","s","k","t","o","p">>
\* '3 Days'
Str_3_Days == <<"3"," ","D","a","y","s">>
\* 'mean'
Str_mean == <<"m","e","a","n">>
\* 'n_most_common'
Str_n_most_common == <<"n","_","m","o","s","t","_","c","o","m","m","o","n">>
\* 'cum_sum'
Str_cum_sum == <<"c","u","m","_","s","u","m">>
\* 'cum_count'
Str_cum_count == <<"c","u","m","_","c","o","u","n","t">>
\* 'divide_numeric'
Str_divide_numeric == <<"d","i","v","i","d","e","_","n","u","m","e","r","i","c">>
\* 'equal_scalar'
Str_equal_scalar == <<"e","q","u","a","l","_","s","c","a","l","a","r">>
\* ''
Str_empty == <<>>
\* 'the "key"'
Str_the_key == <<"t","h","e"," ","\"","k","e","y","\"">>
\* 'Spend'
Str_Spend == <<"S","p","e","n","d">>
\* 'the tally'
Str_the_tally == <<"t","h","e"," ","t","a","l","l","y">>
\* 'the total'
Str_the_total == <<"t","h","e"," ","t","o","t","a","l">>
\* 'the average of '
Str_the_average_of == <<"t","h","e"," ","a","v","e","r","a","g","e"," ","o","f"," ">>
\* '.'
Str_dot == <<".">>
LowerLetters == <<"a","b","c","d","e","f","g","h","i","j","k","l","m","n","o","p","q","r","s","t","u","v","w","x","y","z">>
UpperLetters == <<"A","B","C","D","E","F","G","H","I","J","K","L","M","N","O","P","Q","R","S","T","U","V","W","X","Y","Z">>

-----------------------------------------------------------------------------
(* Python values.                                                          *)

\* None
PyNone == <<"NoneType">>

\* the empty dict {}
EmptyDict == <<>>

\* truth value of a str, a dict or None: '' , {} and None are false
Truthy(v) == v # PyNone /\ DOMAIN v # {}

\* a or b
PyOr(a, b) == IF Truthy(a) THEN a ELSE b

\* d.get(k)
DictGet(d, k) == IF k \in DOMAIN d THEN d[k] ELSE PyNone

\* {**base, **over}
DictMergeBaseWins(base, over) ==
    [k \in DOMAIN base \cup DOMAIN over |-> IF k \in DOMAIN base THEN base[k] ELSE over[k]]
DictMerge(base, over) ==
    [k \in DOMAIN base \cup DOMAIN over |-> IF k \in DOMAIN over THEN over[k] ELSE base[k]]

ObjKey(x) == <<"obj", x>>
NameKey(s) == <<"name", s>>

\* c.upper() and c.lower() of one character
UpperChar(c) ==
    IF \E i \in 1..Len(LowerLetters) : LowerLetters[i] = c
    THEN UpperLetters[CHOOSE i \in 1..Len(LowerLetters) : LowerLetters[i] = c]
    ELSE c
LowerChar(c) ==
    IF \E i \in 1..Len(UpperLetters) : UpperLetters[i] = c
    THEN LowerLetters[CHOOSE i \in 1..Len(UpperLetters) : UpperLetters[i] = c]
    ELSE c
StrUpper(s) == [i \in 1..Len(s) |-> UpperChar(s[i])]
StrLower(s) == [i \in 1..Len(s) |-> LowerChar(s[i])]

\* s[:n] and s[n:]
Take(s, n) == SubSeq(s, 1, IF n < Len(s) THEN n ELSE Len(s))
Drop(s, n) == SubSeq(s, n + 1, Len(s))

\* s.startswith(p)
StartsWith(s, p) == Len(s) >= Len(p) /\ SubSeq(s, 1, Len(p)) = p

\* '{}'.format(v): the text of a str is itself, the text of None is 'None'
FormatValue(v) == IF v = PyNone THEN Str_None ELSE v

\* sep.join(parts) for a list of str
RECURSIVE StrJoin(_, _)
StrJoin(sep, parts) ==
    IF parts = <<>> THEN <<>>
    ELSE IF Len(parts) = 1 THEN parts[1]
    ELSE parts[1] \o sep \o StrJoin(sep, Tail(parts))

\* [x for x in xs if x != '']
RECURSIVE NonEmpty(_)
NonEmpty(xs) ==
    IF xs = <<>> THEN <<>>
    ELSE IF xs[1] # <<>> THEN <<xs[1]>> \o NonEmpty(Tail(xs))
    ELSE NonEmpty(Tail(xs))

-----------------------------------------------------------------------------
(* The feature-object model the renderer consumes (entities, primitives,   *)
(* features), with the accessors the source reads.                         *)

Entities ==
    [regions      |-> [id |-> Str_regions,      index |-> Str_id],
     customers    |-> [id |-> Str_customers,    index |-> Str_id],
     sessions     |-> [id |-> Str_sessions,     index |-> Str_id],
     transactions |-> [id |-> Str_transactions, index |-> Str_id]]

\* a template is a str in which the element "{}" is a replacement field
Primitives ==
    [mean           |-> [name |-> Str_mean, value |-> PyNone,
                         description_template |-> Str_the_average_of \o <<"{}">>],
     n_most_common  |-> [name |-> Str_n_most_common, value |-> PyNone,
                         description_template |-> PyNone],
     cum_sum        |-> [name |-> Str_cum_sum, value |-> PyNone,
                         description_template |-> PyNone],
     cum_count      |-> [name |-> Str_cum_count, value |-> PyNone,
                         description_template |-> PyNone],
     divide_numeric |-> [name |-> Str_divide_numeric, value |-> PyNone,
                         description_template |-> PyNone],
     equal_scalar   |-> [name |-> Str_equal_scalar, value |-> Str_desktop,
                         description_template |-> PyNone]]

NoFeature == "none"

Feat(kind, entity, uname) ==
    [kind |-> kind, entity |-> entity, unique_name |-> uname, name |-> <<>>,
     base_features |-> <<>>, primitive |-> "none", parent_entity |-> "none",
     child_entity |-> "none", where |-> NoFeature, use_previous |-> PyNone,
     n |-> 0, base_feature |-> NoFeature]

IdentityFeature(entity, column, uname) ==
    [Feat("identity", entity, uname) EXCEPT !.name = column]

\* relationship_path[-1][1] of a direct feature on `entity` leads to parent_entity
DirectFeature(base, entity, parent, uname) ==
    [Feat("direct", entity, uname) EXCEPT !.base_features = <<base>>, !.parent_entity = parent]

\* relationship_path[-1][1] of an aggregation leads to child_entity
AggregationFeature(base, entity, child, primitive, where, use_previous, uname) ==
    [Feat("aggregation", entity, uname) EXCEPT
        !.base_features = base, !.child_entity = child, !.primitive = primitive,
        !.where = where, !.use_previous = use_previous]

TransformFeature(base, entity, primitive, uname) ==
    [Feat("transform", entity, uname) EXCEPT !.base_features = base, !.primitive = primitive]

\* base_features of a group-by transform end with the group-by feature
GroupByTransformFeature(base, groupby, entity, primitive, uname) ==
    [Feat("groupby", entity, uname) EXCEPT
        !.base_features = Append(base, groupby), !.primitive = primitive]

PlainFeatures ==
    [cid      |-> IdentityFeature("customers", Str_id, "customers: id"),
     pop      |-> IdentityFeature("regions", Str_population, "regions: population"),
     amount   |-> IdentityFeature("transactions", Str_amount, "transactions: amount"),
     device   |-> IdentityFeature("transactions", Str_device, "transactions: device"),
     sess     |-> IdentityFeature("transactions", Str_session_id, "transactions: session_id"),
     d_pop    |-> DirectFeature("pop", "customers", "regions", "customers: regions.population"),
     dd_pop   |-> DirectFeature("d_pop", "sessions", "customers",
                                "sessions: customers.regions.population"),
     ddd_pop  |-> DirectFeature("dd_pop", "transactions", "sessions",
                                "transactions: sessions.customers.regions.population"),
     w_dev    |-> TransformFeature(<<"device">>, "transactions", "equal_scalar",
                                   "transactions: device = desktop"),
     mean     |-> AggregationFeature(<<"amount">>, "customers", "transactions", "mean",
                                     NoFeature, PyNone, "customers: MEAN(transactions.amount)"),
     mean_w   |-> AggregationFeature(<<"amount">>, "customers", "transactions", "mean",
                                     "w_dev", PyNone,
                                     "customers: MEAN(transactions.amount WHERE device = desktop)"),
     mean_p   |-> AggregationFeature(<<"amount">>, "customers", "transactions", "mean",
                                     NoFeature, Str_3_Days,
                                     "customers: MEAN(transactions.amount, Last 3 Days)"),
     topn     |-> AggregationFeature(<<"device">>, "customers", "transactions",
                                     "n_most_common", NoFeature, PyNone,
                                     "customers: N_MOST_COMMON(transactions.device)"),
     d_mean   |-> DirectFeature("mean", "sessions", "customers",
                                "sessions: customers.MEAN(transactions.amount)"),
     divide   |-> TransformFeature(<<"amount", "ddd_pop">>, "transactions", "divide_numeric",
                                   "transactions: amount / sessions.customers.regions.population"),
     cumsum   |-> GroupByTransformFeature(<<"amount">>, "sess", "transactions", "cum_sum",
                                          "transactions: CUM_SUM(amount) by session_id"),
     cumcount |-> GroupByTransformFeature(<<>>, "sess", "transactions", "cum_count",
                                          "transactions: CUM_COUNT(session_id) by session_id")]

\* the wrapper of output n of a multi-output feature
FeatureOutputSlice(base_feature, n, uname) ==
    [Feat("slice", PlainFeatures[base_feature].entity, uname) EXCEPT
        !.base_features = <<base_feature>>, !.base_feature = base_feature, !.n = n,
        !.primitive = PlainFeatures[base_feature].primitive]

Features ==
    PlainFeatures @@
    [topn_1   |-> FeatureOutputSlice("topn", 1, "customers: N_MOST_COMMON(transactions.device)[1]"),
     cumsum_0 |-> FeatureOutputSlice("cumsum", 0,
                                     "transactions: CUM_SUM(amount) by session_id[0]")]

FeatureIds == DOMAIN Features
PrimitiveIds == DOMAIN Primitives

\* ft.IdentityFeature(entity[column]): equal to the identity feature of that column
IdentityOf(entity, column) ==
    CHOOSE f \in FeatureIds :
        /\ Features[f].kind = "identity"
        /\ Features[f].entity = entity
        /\ Features[f].name = column

-----------------------------------------------------------------------------
(* primitive.get_description(input_descriptions, slice_num, template_override) *)

\* template.format(*inputs): the i-th replacement field takes inputs[i]
RECURSIVE FormatTemplate(_, _)
FormatTemplate(template, inputs) ==
    IF template = <<>> THEN [err |-> "", val |-> <<>>]
    ELSE IF template[1] = "{}"
    THEN IF inputs = <<>> THEN [err |-> "IndexError", val |-> PyNone]
         ELSE LET rest == FormatTemplate(Tail(template), Tail(inputs))
              IN  IF rest.err # "" THEN rest
                  ELSE [err |-> "", val |-> FormatValue(inputs[1]) \o rest.val]
    ELSE LET rest == FormatTemplate(Tail(template), inputs)
         IN  IF rest.err # "" THEN rest
             ELSE [err |-> "", val |-> <<template[1]>> \o rest.val]

\* convert_to_nth(slice_num + 1)
NthSlice(slice_num) ==
    CASE slice_num = 0 -> Str_1st
      [] slice_num = 1 -> Str_2nd
      [] OTHER -> Str_3rd

\* slice_num is None or an int: [none, n]
SliceNone == [none |-> TRUE, n |-> 0]
SliceNum(n) == [none |-> FALSE, n |-> n]

get_description(primitive, input_descriptions, slice_num, template_override) ==
    LET template == PyOr(template_override, Primitives[primitive].description_template)
        name == StrUpper(Primitives[primitive].name)
    IN  IF Truthy(template) THEN FormatTemplate(template, input_descriptions)
        ELSE IF \E i \in 1..Len(input_descriptions) : input_descriptions[i] = PyNone
        THEN [err |-> "TypeError", val |-> PyNone]
        ELSE IF ~slice_num.none
        THEN [err |-> "",
              val |-> Str_the \o NthSlice(slice_num.n) \o Str_output_from_applying \o name
                      \o Str_to \o StrJoin(Str_comma, input_descriptions)]
        ELSE [err |-> "",
              val |-> Str_result_of_applying \o name \o Str_to
                      \o StrJoin(Str_comma, input_descriptions)]

-----------------------------------------------------------------------------
(* The renderer.  An outcome is [err, val, visited, calls, template]: the  *)
(* exception raised ("" if none), the value returned, the features         *)
(* generate_description was called on (in call order), the calls made to   *)
(* primitive.get_description (in call order) and, when the outermost call  *)
(* reached line 115, its list description_template.                        *)

Returned(val, visited, calls) ==
    [err |-> "", val |-> val, visited |-> visited, calls |-> calls, template |-> <<>>]
Raised(err, visited, calls) ==
    [err |-> err, val |-> PyNone, visited |-> visited, calls |-> calls, template |-> <<>>]

\* `x in d or name in d` followed by `d.get(x) or d.get(name)`
HasOverrideObjectOnly(d, x, name) == ObjKey(x) \in DOMAIN d
HasOverride(d, x, name) == ObjKey(x) \in DOMAIN d \/ NameKey(name) \in DOMAIN d
OverrideObjectOnly(d, x, name) == DictGet(d, ObjKey(x))
Override(d, x, name) == PyOr(DictGet(d, ObjKey(x)), DictGet(d, NameKey(name)))

\* get_direct_description, lines 121-134: <<base feature, direct_description>>
RECURSIVE UnwindAppends(_, _)
UnwindAppends(base_features, direct_description) ==
    IF Features[base_features[1]].kind = "direct"
    THEN LET base_feat == base_features[1]
             base_feat_description ==
                 Str_the_instance_of
                 \o Entities[Features[base_feat].parent_entity].id \o Str_assoc_with
         IN  UnwindAppends(Features[base_feat].base_features,
                           direct_description \o base_feat_description)
    ELSE <<base_features[1], Str_sp_of \o direct_description>>

RECURSIVE Unwind(_, _)
Unwind(base_features, direct_description) ==
    IF Features[base_features[1]].kind = "direct"
    THEN LET base_feat == base_features[1]
             base_feat_description ==
                 Str_the_instance_of
                 \o Entities[Features[base_feat].parent_entity].id \o Str_assoc_with
         IN  Unwind(Features[base_feat].base_features,
                    base_feat_description \o direct_description)
    ELSE <<base_features[1], Str_sp_of \o direct_description>>

get_direct_description(f) ==
    Unwind(Features[f].base_features,
           Str_the_instance_of \o Entities[Features[f].parent_entity].id
           \o Str_assoc_this_instance \o Entities[Features[f].entity].id \o Str_quote)

\* get_aggregation_groupby, lines 137-148: [err, val]
get_aggregation_groupby(f, descriptions) ==
    LET groupby_name == Entities[Features[f].entity].index
        groupby_feature == IdentityOf(Features[f].entity, groupby_name)
        d == Override(descriptions, groupby_feature, Features[groupby_feature].unique_name)
    IN  IF HasOverride(descriptions, groupby_feature, Features[groupby_feature].unique_name)
        THEN IF d = PyNone THEN [err |-> "AttributeError", val |-> PyNone]
             ELSE IF StartsWith(d, Str_the) THEN [err |-> "", val |-> Drop(d, 4)]
             ELSE [err |-> "", val |-> d]
        ELSE [err |-> "",
              val |-> Str_quote \o groupby_name \o Str_in
                      \o Entities[Features[f].entity].id \o Str_quote]

\* line 116
JoinTemplateKeepsEmpty(description_template) == StrJoin(Str_space, description_template)
JoinTemplate(description_template) == StrJoin(Str_space, NonEmpty(description_template))

RECURSIVE generate_description(_, _, _)
RECURSIVE DescribeInputs(_, _, _)

\* lines 62-66: the outcomes of describing input_columns in order, up to the
\* first that raises; val is the list input_descriptions
DescribeInputs(input_columns, descriptions, templates) ==
    IF input_columns = <<>> THEN Returned(<<>>, <<>>, <<>>)
    ELSE LET col == generate_description(input_columns[1], descriptions, templates)
         IN  IF col.err # "" THEN col
             ELSE LET rest == DescribeInputs(Tail(input_columns), descriptions, templates)
                      visited == col.visited \o rest.visited
                      calls == col.calls \o rest.calls
                  IN  IF rest.err # "" THEN Raised(rest.err, visited, calls)
                      ELSE Returned(<<col.val>> \o rest.val, visited, calls)

\* lines 58-60
InputColumns(f) ==
    IF Features[f].kind = "slice" THEN Features[Features[f].base_feature].base_features
    ELSE Features[f].base_features

\* line 68: the test is on the feature passed in, a wrapper included
Pops(f) == Features[f].kind = "groupby"

\* lines 68-69: input_descriptions once the group-by phrase is popped
InputDescriptions(f, described) ==
    IF Pops(f) THEN SubSeq(described, 1, Len(described) - 1) ELSE described

\* lines 72-78
SliceNumOf(f) == IF Features[f].kind = "slice" THEN SliceNum(Features[f].n) ELSE SliceNone
TemplateOverride(f, templates) ==
    IF HasOverride(templates, Features[f].primitive, Features[f].primitive)
    THEN Override(templates, Features[f].primitive, Features[f].primitive)
    ELSE PyNone

\* the arguments of the call at lines 79-81
PrimitiveCall(f, templates, described) ==
    [primitive |-> Features[f].primitive,
     input_descriptions |-> InputDescriptions(f, described),
     slice_num |-> SliceNumOf(f),
     template_override |-> TemplateOverride(f, templates)]

\* lines 82-83
Unwrapped(f) == IF Features[f].kind = "slice" THEN Features[f].base_feature ELSE f

\* lines 86-91; agg is the outcome of get_aggregation_groupby
GroupByPhrase(g, agg, described) ==
    IF Features[g].kind = "aggregation" THEN Str_for_each \o FormatValue(agg.val)
    ELSE IF Features[g].kind = "groupby"
    THEN Str_for_each \o FormatValue(described[Len(described)])
    ELSE <<>>

\* lines 94-100
EntityDescription(g) ==
    IF Features[g].kind = "aggregation"
    THEN (IF Truthy(Features[g].use_previous)
          THEN Str_of_the_previous \o StrLower(Features[g].use_previous) \o Str_of_sp
          ELSE Str_of_all_instances_of)
         \o Str_quote \o Entities[Features[g].child_entity].id \o Str_quote
    ELSE <<>>

\* lines 104-107
HasWhere(g) == Features[g].where # NoFeature
WhereOverridden(g, descriptions) ==
    HasWhere(g) /\ HasOverride(descriptions, Features[g].where,
                               Features[Features[g].where].unique_name)

\* lines 103-112; where_base is the outcome of the call at line 109
WherePhrase(g, descriptions, where_base) ==
    IF HasWhere(g)
    THEN Str_where
         \o FormatValue(IF WhereOverridden(g, descriptions)
                        THEN Override(descriptions, Features[g].where,
                                      Features[Features[g].where].unique_name)
                        ELSE where_base.val)
         \o Str_is \o FormatValue(Primitives[Features[Features[g].where].primitive].value)
    ELSE <<>>

\* lines 114-118
JoinParts(visited, calls, description_template) ==
    [Returned(JoinTemplate(description_template), visited, calls)
     EXCEPT !.template = description_template]

\* lines 102-118, once the where column is described
AfterWhere(f, descriptions, inputs, prim, agg, where_base) ==
    IF where_base.err # ""
    THEN Raised(where_base.err, <<f>> \o inputs.visited \o where_base.visited,
                inputs.calls \o <<prim.call>> \o where_base.calls)
    ELSE JoinParts(<<f>> \o inputs.visited \o where_base.visited,
                   inputs.calls \o <<prim.call>> \o where_base.calls,
                   <<prim.val, EntityDescription(Unwrapped(f)),
                     WherePhrase(Unwrapped(f), descriptions, where_base),
                     GroupByPhrase(Unwrapped(f), agg, inputs.val)>>)

\* lines 85-112, once the primitive is described
AfterPrimitive(f, descriptions, templates, inputs, prim, agg) ==
    IF prim.err # "" THEN Raised(prim.err, <<f>> \o inputs.visited, inputs.calls \o <<prim.call>>)
    ELSE IF agg.err # ""
    THEN Raised(agg.err, <<f>> \o inputs.visited, inputs.calls \o <<prim.call>>)
    \* line 91 reads groupby_description, which only line 69 binds
    ELSE IF Features[Unwrapped(f)].kind = "groupby" /\ ~Pops(f)
    THEN Raised("UnboundLocalError", <<f>> \o inputs.visited, inputs.calls \o <<prim.call>>)
    ELSE AfterWhere(f, descriptions, inputs, prim, agg,
                    IF HasWhere(Unwrapped(f)) /\ ~WhereOverridden(Unwrapped(f), descriptions)
                    THEN generate_description(
                             Features[Features[Unwrapped(f)].where].base_features[1],
                             descriptions, templates)
                    ELSE Returned(PyNone, <<>>, <<>>))

\* the call at lines 79-81 and its outcome
DescribePrimitive(call) ==
    LET r == get_description(call.primitive, call.input_descriptions, call.slice_num,
                             call.template_override)
    IN  [err |-> r.err, val |-> r.val, call |-> call]

\* lines 68-112, once the input columns are described
AfterInputs(f, descriptions, templates, inputs) ==
    IF inputs.err # "" THEN Raised(inputs.err, <<f>> \o inputs.visited, inputs.calls)
    \* line 69: pop from an empty list
    ELSE IF Pops(f) /\ inputs.val = <<>>
    THEN Raised("IndexError", <<f>> \o inputs.visited, inputs.calls)
    ELSE AfterPrimitive(f, descriptions, templates, inputs,
                        DescribePrimitive(PrimitiveCall(f, templates, inputs.val)),
                        IF Features[Unwrapped(f)].kind = "aggregation"
                        THEN get_aggregation_groupby(Unwrapped(f), descriptions)
                        ELSE [err |-> "", val |-> <<>>])

\* lines 56-118, for a feature that has no override and is neither identity nor direct
GeneralDescription(f, descriptions, templates) ==
    AfterInputs(f, descriptions, templates,
                DescribeInputs(InputColumns(f), descriptions, templates))

\* lines 35-118
generate_description(f, descriptions, templates) ==
    IF HasOverride(descriptions, f, Features[f].unique_name)
    THEN Returned(Override(descriptions, f, Features[f].unique_name), <<f>>, <<>>)
    ELSE IF Features[f].kind = "identity"
    THEN Returned(Str_the_quote \o Features[f].name \o Str_quote, <<f>>, <<>>)
    ELSE IF Features[f].kind = "direct"
    THEN LET d == get_direct_description(f)
             direct_base == generate_description(d[1], descriptions, templates)
         IN  IF direct_base.err # ""
             THEN Raised(direct_base.err, <<f>> \o direct_base.visited, direct_base.calls)
             ELSE IF direct_base.val = PyNone
             THEN Raised("TypeError", <<f>> \o direct_base.visited, direct_base.calls)
             ELSE Returned(direct_base.val \o d[2], <<f>> \o direct_base.visited,
                           direct_base.calls)
    ELSE GeneralDescription(f, descriptions, templates)

\* line 32
CapitalizeAll(s) == StrUpper(s) \o Str_dot
Capitalize(s) == StrUpper(Take(s, 1)) \o Drop(s, 1) \o Str_dot

\* lines 151-155: [err, val], val the pair of dicts read from the file
parse_json_metadata_or_default(f) ==
    IF f.state = "object"
    THEN [err |-> "",
          val |-> <<IF "feature_descriptions" \in DOMAIN f.json
                    THEN f.json["feature_descriptions"] ELSE EmptyDict,
                    IF "primitive_templates" \in DOMAIN f.json
                    THEN f.json["primitive_templates"] ELSE EmptyDict>>]
    ELSE [err |-> "", val |-> <<EmptyDict, EmptyDict>>]
parse_json_metadata(f) ==
    CASE f.state = "missing"    -> [err |-> "FileNotFoundError", val |-> PyNone]
      [] f.state = "unreadable" -> [err |-> "PermissionError", val |-> PyNone]
      [] f.state = "malformed"  -> [err |-> "JSONDecodeError", val |-> PyNone]
      [] f.state = "not_object" -> [err |-> "AttributeError", val |-> PyNone]
      [] OTHER ->
           [err |-> "",
            val |-> <<IF "feature_descriptions" \in DOMAIN f.json
                      THEN f.json["feature_descriptions"] ELSE EmptyDict,
                      IF "primitive_templates" \in DOMAIN f.json
                      THEN f.json["primitive_templates"] ELSE EmptyDict>>]

-----------------------------------------------------------------------------
(* The calls explored: every feature of the model, override dicts over the *)
(* keys the renderer can look up for that feature, and every state of the  *)
(* metadata file.                                                          *)

\* most entries, in total, of the dicts passed by the caller and read from the file
MaxOverrides == 2

\* most entries, in total, of the dicts read from the file
MaxFileEntries == 1

\* an argument that may be None: [none, dict]
PassedNone == [none |-> TRUE, dict |-> EmptyDict]
Passed(d) == [none |-> FALSE, dict |-> d]

\* description before line 31 has run
NoOutcome == Returned(PyNone, <<>>, <<>>)

Str_meta_json == <<"m","e","t","a",".","j","s","o","n">>

DescriptionValues == {Str_empty, Str_the_key, Str_Spend}
TemplateValues == {Str_the_tally, Str_the_total}

\* the features and primitives reached from f
Successors(f) ==
    {Features[f].base_features[i] : i \in DOMAIN Features[f].base_features}
    \cup (IF Features[f].where # NoFeature THEN {Features[f].where} ELSE {})
    \cup (IF Features[f].kind = "aggregation"
          THEN {IdentityOf(Features[f].entity, Entities[Features[f].entity].index)}
          ELSE {})
RECURSIVE Reach(_)
Reach(S) ==
    LET N == S \cup UNION {Successors(f) : f \in S}
    IN  IF N = S THEN S ELSE Reach(N)
ReachPrimitives(f) == {Features[g].primitive : g \in Reach({f})} \ {"none"}

DescriptionNameKeys(f) == {NameKey(Features[g].unique_name) : g \in Reach({f})}
DescriptionKeys(f) == {ObjKey(g) : g \in Reach({f})} \cup DescriptionNameKeys(f)
TemplateNameKeys(f) == {NameKey(p) : p \in ReachPrimitives(f)}
TemplateKeys(f) == {ObjKey(p) : p \in ReachPrimitives(f)} \cup TemplateNameKeys(f)

Dicts(keys, values, n) ==
    UNION {[K -> values] : K \in {S \in SUBSET keys : Cardinality(S) <= n}}
Size(d) == Cardinality(DOMAIN d)
Min(a, b) == IF a < b THEN a ELSE b

\* the documents a readable JSON object file can hold
JsonObjects(f, n) ==
    UNION {
      UNION {
        { [k \in (IF hasfd THEN {"feature_descriptions"} ELSE {})
                 \cup (IF haspt THEN {"primitive_templates"} ELSE {})
             |-> IF k = "feature_descriptions" THEN fd ELSE pt]
          : hasfd \in {TRUE} \cup (IF DOMAIN fd = {} THEN {FALSE} ELSE {}),
            haspt \in {TRUE} \cup (IF DOMAIN pt = {} THEN {FALSE} ELSE {}) }
        : pt \in Dicts(TemplateNameKeys(f), TemplateValues, n - Size(fd)) }
      : fd \in Dicts(DescriptionNameKeys(f), DescriptionValues, n) }

Files(f, n) ==
    {[state |-> s, json |-> EmptyDict] :
        s \in {"missing", "unreadable", "malformed", "not_object"}}
    \cup {[state |-> "object", json |-> j] : j \in JsonObjects(f, n)}

\* the features described with a metadata_file argument other than None
MetadataFeatures == {"amount", "mean", "topn_1"}

\* the entries a call may pass directly: MaxOverrides without a metadata file,
\* MaxFileEntries beside one
PassedBudget(path) == IF path = PyNone THEN MaxOverrides ELSE Min(MaxFileEntries, MaxOverrides)

Init ==
    /\ feature \in FeatureIds
    /\ metadata_file \in IF feature \in MetadataFeatures
                         THEN {PyNone, Str_empty, Str_meta_json}
                         ELSE {PyNone}
    /\ passed_descriptions \in
         {PassedNone} \cup {Passed(d) : d \in Dicts(DescriptionKeys(feature),
                                                    DescriptionValues,
                                                    PassedBudget(metadata_file))}
    /\ passed_templates \in
         {PassedNone} \cup
         {Passed(d) : d \in Dicts(TemplateKeys(feature), TemplateValues,
                                  PassedBudget(metadata_file)
                                  - Size(passed_descriptions.dict))}
    /\ file \in IF Truthy(metadata_file)
                THEN Files(feature, Min(MaxFileEntries,
                                        MaxOverrides - Size(passed_descriptions.dict)
                                        - Size(passed_templates.dict)))
                ELSE {[state |-> "missing", json |-> EmptyDict]}
    /\ feature_descriptions = passed_descriptions
    /\ primitive_templates = passed_templates
    /\ description = NoOutcome
    /\ result = PyNone
    /\ error = ""
    /\ pc = "start"

\* lines 21-24
Normalize ==
    /\ pc = "start"
    /\ feature_descriptions' = IF feature_descriptions.none \/ DOMAIN feature_descriptions.dict = {}
                               THEN EmptyDict ELSE feature_descriptions.dict
    /\ primitive_templates' = IF primitive_templates.none \/ DOMAIN primitive_templates.dict = {}
                              THEN EmptyDict ELSE primitive_templates.dict
    /\ pc' = "normalized"
    /\ UNCHANGED <<feature, passed_descriptions, passed_templates, metadata_file, file,
                   description, result, error>>

\* line 26, metadata_file is None or ''
SkipMetadata ==
    /\ pc = "normalized"
    /\ ~Truthy(metadata_file)
    /\ pc' = "merged"
    /\ UNCHANGED <<feature, passed_descriptions, passed_templates, metadata_file, file,
                   feature_descriptions, primitive_templates, description, result, error>>

\* lines 26-29, the file is read
LoadMetadata ==
    /\ pc = "normalized"
    /\ Truthy(metadata_file)
    /\ LET parsed == parse_json_metadata(file)
       IN  /\ parsed.err = ""
           /\ feature_descriptions' = DictMerge(parsed.val[1], feature_descriptions)
           /\ primitive_templates' = DictMerge(parsed.val[2], primitive_templates)
    /\ pc' = "merged"
    /\ UNCHANGED <<feature, passed_descriptions, passed_templates, metadata_file, file,
                   description, result, error>>

\* line 27, parse_json_metadata raises
LoadMetadataRaises ==
    /\ pc = "normalized"
    /\ Truthy(metadata_file)
    /\ parse_json_metadata(file).err # ""
    /\ error' = parse_json_metadata(file).err
    /\ pc' = "done"
    /\ UNCHANGED <<feature, passed_descriptions, passed_templates, metadata_file, file,
                   feature_descriptions, primitive_templates, description, result>>

\* line 31
Generate ==
    /\ pc = "merged"
    /\ description' = generate_description(feature, feature_descriptions, primitive_templates)
    /\ error' = description'.err
    /\ pc' = IF description'.err = "" THEN "generated" ELSE "done"
    /\ UNCHANGED <<feature, passed_descriptions, passed_templates, metadata_file, file,
                   feature_descriptions, primitive_templates, result>>

\* line 32
Return ==
    /\ pc = "generated"
    /\ IF description.val = PyNone
       THEN error' = "TypeError" /\ result' = result
       ELSE error' = error /\ result' = Capitalize(description.val)
    /\ pc' = "done"
    /\ UNCHANGED <<feature, passed_descriptions, passed_templates, metadata_file, file,
                   feature_descriptions, primitive_templates, description>>

Next ==
    \/ Normalize
    \/ SkipMetadata
    \/ LoadMetadata
    \/ LoadMetadataRaises
    \/ Generate
    \/ Return

Spec == Init /\ [][Next]_vars

-----------------------------------------------------------------------------
(* Properties.                                                             *)

\* no metadata file is given (line 26 is false)
NoFile == ~Truthy(metadata_file)
\* line 31 has run
Ran == description.visited # <<>>

IsUpperLetter(c) == \E i \in 1..Len(UpperLetters) : UpperLetters[i] = c
IsLowerLetter(c) == \E i \in 1..Len(LowerLetters) : LowerLetters[i] = c
EndsWith(s, t) == Len(s) >= Len(t) /\ SubSeq(s, Len(s) - Len(t) + 1, Len(s)) = t
Contains(s, t) == \E i \in 1..(Len(s) - Len(t) + 1) : SubSeq(s, i, i + Len(t) - 1) = t
Range(s) == {s[i] : i \in DOMAIN s}

\* x or its name is a key of d
IsKeyed(d, x, name) == <<"obj", x>> \in DOMAIN d \/ <<"name", name>> \in DOMAIN d
BothKeyed(d, x, name) == <<"obj", x>> \in DOMAIN d /\ <<"name", name>> \in DOMAIN d
\* what `d.get(x) or d.get(name)` yields
Looked(d, x, name) ==
    IF <<"obj", x>> \in DOMAIN d /\ d[<<"obj", x>>] # <<>> THEN d[<<"obj", x>>]
    ELSE IF <<"name", name>> \in DOMAIN d THEN d[<<"name", name>>]
    ELSE PyNone
RootKeyed == IsKeyed(feature_descriptions, feature, Features[feature].unique_name)

(* C1 (as stated): without a metadata file, the string describe_feature    *)
(* returns starts with an uppercase letter and ends with '.'.              *)
C1_Original ==
    (pc = "done" /\ NoFile /\ result # PyNone) =>
        /\ Len(result) >= 1
        /\ IsUpperLetter(result[1])
        /\ result[Len(result)] = "."

(* C1 (amended): without a metadata file, the string describe_feature      *)
(* returns is the generated phrase with its first character replaced by    *)
(* that character's uppercase form, followed by '.': it ends with '.', and *)
(* it starts with an uppercase letter exactly when the phrase starts with  *)
(* a letter; for the empty phrase it is '.'.                               *)
C1_Capitalized ==
    (pc = "done" /\ NoFile /\ error = "") =>
        LET phrase == description.val
        IN  /\ Len(result) = Len(phrase) + 1
            /\ result[Len(result)] = "."
            /\ \A i \in 2..Len(phrase) : result[i] = phrase[i]
            /\ phrase # <<>> =>
                 IF IsLowerLetter(phrase[1])
                 THEN IsUpperLetter(result[1]) /\ LowerChar(result[1]) = phrase[1]
                 ELSE result[1] = phrase[1]
            /\ IsUpperLetter(result[1]) <=>
                 (phrase # <<>> /\ (IsLowerLetter(phrase[1]) \/ IsUpperLetter(phrase[1])))

C1_Witness ==
    /\ pc = "done" /\ NoFile /\ error = ""
    /\ description.val # <<>>
    /\ IsLowerLetter(description.val[1])
    /\ IsUpperLetter(result[1])

(* C2 (as stated): when feature_descriptions has an entry under the        *)
(* feature's unique name, generate_description returns that entry's string *)
(* and describes no base feature.                                          *)
C2_Original ==
    (Ran /\ <<"name", Features[feature].unique_name>> \in DOMAIN feature_descriptions) =>
        /\ description.err = ""
        /\ description.val = feature_descriptions[<<"name", Features[feature].unique_name>>]
        /\ description.visited = <<feature>>
        /\ description.calls = <<>>

(* C2 (amended): when feature_descriptions has an entry under the          *)
(* feature's unique name and none under the feature object itself,         *)
(* generate_description returns the unique-name entry's string and         *)
(* describes no base feature.                                              *)
C2_NameOverride ==
    (/\ Ran
     /\ <<"name", Features[feature].unique_name>> \in DOMAIN feature_descriptions
     /\ <<"obj", feature>> \notin DOMAIN feature_descriptions) =>
        /\ description.err = ""
        /\ description.val = feature_descriptions[<<"name", Features[feature].unique_name>>]
        /\ description.visited = <<feature>>
        /\ description.calls = <<>>

C2_Witness ==
    /\ Ran
    /\ Features[feature].kind = "aggregation"
    /\ DOMAIN feature_descriptions = {<<"name", Features[feature].unique_name>>}
    /\ description.val = Str_Spend
    /\ description.visited = <<feature>>

(* C3: in every override lookup, when the object and its name are both     *)
(* keys, the value under the object key is the one used.                   *)
C3_ObjectKeyFirst ==
    Ran =>
        /\ BothKeyed(feature_descriptions, feature, Features[feature].unique_name) =>
             description.val = feature_descriptions[<<"obj", feature>>]
        /\ \A g \in FeatureIds :
             BothKeyed(feature_descriptions, g, Features[g].unique_name) =>
                 Override(feature_descriptions, g, Features[g].unique_name)
                     = feature_descriptions[<<"obj", g>>]
        /\ \A i \in DOMAIN description.calls :
             BothKeyed(primitive_templates, description.calls[i].primitive,
                       description.calls[i].primitive) =>
                 description.calls[i].template_override
                     = primitive_templates[<<"obj", description.calls[i].primitive>>]

\* the two dicts the metadata file holds
FileDescriptions ==
    IF "feature_descriptions" \in DOMAIN file.json
    THEN file.json["feature_descriptions"] ELSE <<>>
FileTemplates ==
    IF "primitive_templates" \in DOMAIN file.json
    THEN file.json["primitive_templates"] ELSE <<>>
\* m is the union of base and over, over's value kept where both have the key
IsMergeOf(m, base, over) ==
    /\ DOMAIN m = DOMAIN base \cup DOMAIN over
    /\ \A k \in DOMAIN over : m[k] = over[k]
    /\ \A k \in DOMAIN base \ DOMAIN over : m[k] = base[k]

(* C4: with a metadata file, the dicts used for rendering are the union of *)
(* the file's and the passed ones; on a key of both the passed value is    *)
(* used, a key of the file alone keeps the file's value.                   *)
C4_MergePrecedence ==
    (Truthy(metadata_file) /\ (pc \in {"merged", "generated"} \/ Ran)) =>
        /\ IsMergeOf(feature_descriptions, FileDescriptions, passed_descriptions.dict)
        /\ IsMergeOf(primitive_templates, FileTemplates, passed_templates.dict)

C4_Witness ==
    /\ Truthy(metadata_file) /\ Ran
    /\ <<"name", Features[feature].unique_name>> \in DOMAIN FileDescriptions
    /\ <<"name", Features[feature].unique_name>> \in DOMAIN passed_descriptions.dict
    /\ FileDescriptions[<<"name", Features[feature].unique_name>>] = Str_the_key
    /\ passed_descriptions.dict[<<"name", Features[feature].unique_name>>] = Str_Spend
    /\ description.val = Str_Spend

(* C5: with a metadata file path whose file is missing, unreadable or not  *)
(* valid structured data, the call ends in the read/parse error: nothing   *)
(* is returned and rendering never runs.                                   *)
C5_FileErrorPropagates ==
    (Truthy(metadata_file) /\ file.state # "object") =>
        /\ pc \in {"start", "normalized", "done"}
        /\ result = PyNone
        /\ ~Ran
        /\ pc = "done" =>
             error = CASE file.state = "missing" -> "FileNotFoundError"
                       [] file.state = "unreadable" -> "PermissionError"
                       [] file.state = "malformed" -> "JSONDecodeError"
                       [] OTHER -> "AttributeError"

C5_Witness ==
    /\ pc = "done" /\ Truthy(metadata_file)
    /\ file.state = "missing"
    /\ error = "FileNotFoundError"
    /\ result = PyNone

(* C6: without a metadata file describe_feature raises no error and        *)
(* returns a sentence, for every feature tree and override dicts.          *)
C6_NoFailure ==
    (pc = "done" /\ NoFile) => (error = "" /\ result # PyNone)

\* the feature is rendered by the general case (lines 56-118)
GeneralRoot ==
    /\ Features[feature].kind \in {"aggregation", "transform", "groupby", "slice"}
    /\ ~RootKeyed
Glue(a, b) == IF a = <<>> THEN b ELSE IF b = <<>> THEN a ELSE a \o <<" ">> \o b
\* the feature is an aggregation without use_previous, where or group-by override
PlainAggregation ==
    /\ Features[feature].kind = "aggregation"
    /\ Features[feature].use_previous = PyNone
    /\ Features[feature].where = NoFeature
    /\ \A g \in FeatureIds :
         (Features[g].kind = "identity" /\ Features[g].entity = Features[feature].entity
          /\ Features[g].name = Entities[Features[feature].entity].index)
         => ~IsKeyed(feature_descriptions, g, Features[g].unique_name)

\* the aggregation or group-by transform the feature is or wraps
Inner(f) == IF Features[f].kind = "slice" THEN Features[f].base_feature ELSE f

(* C7: in the general case the result is the non-empty strings among       *)
(* primitive fragment, entity clause, where clause, group-by clause, in    *)
(* that order, joined by single spaces; an aggregation without             *)
(* use_previous, where and group-by override is                            *)
(* '<fragment> of all instances of "<child>" for each "<index>" in         *)
(* "<entity>"'.                                                            *)
C7_JoinOrder ==
    (Ran /\ GeneralRoot /\ description.err = "") =>
        LET t == description.template
            calls == description.calls
        IN  /\ Len(t) = 4
            \* t[1] is what the primitive returned for this feature
            /\ \E i \in DOMAIN calls :
                 /\ calls[i].primitive = Features[feature].primitive
                 /\ t[1] = get_description(calls[i].primitive, calls[i].input_descriptions,
                                           calls[i].slice_num, calls[i].template_override).val
            \* t[2] is the entity clause
            /\ t[2] = IF Features[Inner(feature)].kind # "aggregation" THEN <<>>
                      ELSE (IF Features[Inner(feature)].use_previous = PyNone
                            THEN <<"o","f"," ","a","l","l"," ","i","n","s","t","a","n","c","e","s",
                                   " ","o","f"," ","\"">>
                            ELSE <<"o","f"," ","t","h","e"," ","p","r","e","v","i","o","u","s"," ",
                                   "3"," ","d","a","y","s"," ","o","f"," ","\"">>)
                           \o Entities[Features[Inner(feature)].child_entity].id \o <<"\"">>
            \* t[3] is the where clause
            /\ IF Features[Inner(feature)].where = NoFeature THEN t[3] = <<>>
               ELSE /\ StartsWith(t[3], <<"w","h","e","r","e"," ">>)
                    /\ EndsWith(t[3], <<" ","i","s"," ","d","e","s","k","t","o","p">>)
            \* t[4] is the group-by clause
            /\ IF Features[Inner(feature)].kind \in {"aggregation", "groupby"}
               THEN StartsWith(t[4], <<"f","o","r"," ","e","a","c","h"," ">>)
               ELSE t[4] = <<>>
            /\ description.val = Glue(Glue(Glue(t[1], t[2]), t[3]), t[4])
            /\ PlainAggregation =>
                 description.val =
                     t[1] \o <<" ","o","f"," ","a","l","l"," ","i","n","s","t","a","n","c","e","s",
                               " ","o","f"," ","\"">>
                     \o Entities[Features[feature].child_entity].id
                     \o <<"\""," ","f","o","r"," ","e","a","c","h"," ","\"">>
                     \o Entities[Features[feature].entity].index
                     \o <<"\""," ","i","n"," ","\"">>
                     \o Entities[Features[feature].entity].id \o <<"\"">>

C7_Witness ==
    /\ Ran /\ GeneralRoot /\ description.err = ""
    /\ PlainAggregation
    /\ description.template[1] = Str_the_average_of \o Str_the_quote \o Str_amount \o Str_quote

\* the direct features from f inwards, and the first feature that is not direct
RECURSIVE ChainOf(_)
ChainOf(f) ==
    IF Features[f].kind = "direct" THEN <<f>> \o ChainOf(Features[f].base_features[1])
    ELSE <<>>
RECURSIVE ChainBase(_)
ChainBase(f) ==
    IF Features[f].kind = "direct" THEN ChainBase(Features[f].base_features[1]) ELSE f
\* one ' the instance of "<parent>" associated with' per hop, innermost hop first
RECURSIVE HopsText(_)
HopsText(chain) ==
    IF chain = <<>> THEN <<>>
    ELSE HopsText(Tail(chain))
         \o <<" ","t","h","e"," ","i","n","s","t","a","n","c","e"," ","o","f"," ","\"">>
         \o Entities[Features[chain[1]].parent_entity].id
         \o <<"\""," ","a","s","s","o","c","i","a","t","e","d"," ","w","i","t","h">>

(* C8: a chain of n >= 1 direct features without overrides renders as      *)
(* describe(B), ' of', one ' the instance of "<parent>" associated with'   *)
(* per hop from the innermost hop to the root's, then                      *)
(* ' this instance of "<root entity>"'; B is the first non-direct base.    *)
C8_DirectChain ==
    (Ran /\ Features[feature].kind = "direct" /\ DOMAIN feature_descriptions = {}) =>
        LET base == generate_description(ChainBase(feature), feature_descriptions,
                                         primitive_templates)
        IN  /\ base.err = "" /\ description.err = ""
            /\ Len(ChainOf(feature)) >= 1
            /\ description.val =
                 base.val \o <<" ","o","f">> \o HopsText(ChainOf(feature))
                 \o <<" ","t","h","i","s"," ","i","n","s","t","a","n","c","e"," ","o","f"," ","\"">>
                 \o Entities[Features[feature].entity].id \o <<"\"">>

C8_Witness ==
    /\ Ran /\ DOMAIN feature_descriptions = {}
    /\ Len(ChainOf(feature)) = 3
    /\ description.err = ""

\* the outcome of describing the i-th base feature of the group-by transform
BasePhrase(i) ==
    generate_description(Features[Inner(feature)].base_features[i],
                         feature_descriptions, primitive_templates)

(* C9: for a group-by transform with base features b1..bk, described       *)
(* directly or through a sliced-output wrapper, the primitive receives the *)
(* phrases of b1..b(k-1) in order and the result ends with 'for each '     *)
(* followed by the phrase of bk.                                           *)
C9_GroupByLast ==
    (/\ Ran /\ ~RootKeyed
     /\ Features[Inner(feature)].kind = "groupby"
     /\ \A i \in DOMAIN Features[Inner(feature)].base_features :
          BasePhrase(i).err = "" /\ BasePhrase(i).val # PyNone) =>
        LET k == Len(Features[Inner(feature)].base_features)
            calls == description.calls
        IN  /\ calls # <<>>
            /\ calls[Len(calls)].input_descriptions = [i \in 1..(k - 1) |-> BasePhrase(i).val]
            /\ description.err = ""
            /\ EndsWith(description.val,
                        <<"f","o","r"," ","e","a","c","h"," ">> \o BasePhrase(k).val)

\* the nodes from f down to the first node with an entry on each path
RECURSIVE PathNodes(_)
PathNodes(f) ==
    {f} \cup
    (IF IsKeyed(feature_descriptions, f, Features[f].unique_name) THEN {}
     ELSE UNION {PathNodes(Features[f].base_features[i]) :
                    i \in DOMAIN Features[f].base_features})
\* the features below n
Below(n) == Reach({n}) \ {n}
\* the nodes generate_description steps over: a direct feature that is the base of a
\* direct feature, and the feature a sliced-output wrapper wraps
Skipped(f) ==
    {n \in Reach({f}) :
        \E m \in Reach({f}) :
            \/ /\ Features[m].kind = "direct" /\ Features[n].kind = "direct"
               /\ Features[m].base_features[1] = n
            \/ Features[m].kind = "slice" /\ Features[m].base_feature = n}
WithoutEntriesOf(d, nodes) ==
    [k \in DOMAIN d \ ({<<"obj", n>> : n \in nodes}
                       \cup {<<"name", Features[n].unique_name>> : n \in nodes}) |-> d[k]]

(* C10 (as stated): every node on the path from the root to a described    *)
(* leaf that has an entry in feature_descriptions (a direct feature in the *)
(* middle of a direct chain and the feature a sliced-output wrapper wraps  *)
(* included) has its override text in the output in place of its          *)
(* generated description, and none of its base features is described.      *)
C10_Original ==
    (Ran /\ description.err = "" /\ description.val # PyNone) =>
        \A n \in PathNodes(feature) :
            (/\ IsKeyed(feature_descriptions, n, Features[n].unique_name)
             /\ Looked(feature_descriptions, n, Features[n].unique_name) # PyNone) =>
                /\ Below(n) \cap Range(description.visited) = {}
                /\ LET bare == WithoutEntriesOf(feature_descriptions, {n})
                       own == generate_description(n, bare, primitive_templates)
                       whole == generate_description(feature, bare, primitive_templates)
                   IN  (/\ own.err = "" /\ whole.err = ""
                        /\ own.val # PyNone /\ whole.val # PyNone
                        /\ Contains(whole.val, own.val)) =>
                           Contains(description.val,
                                    Looked(feature_descriptions, n, Features[n].unique_name))

(* C10 (amended): every node generate_description is called on and that    *)
(* has an entry in feature_descriptions ends the recursion: the call       *)
(* returns the looked-up entry and none of the node's base features is     *)
(* described.  generate_description is not called on a direct feature in   *)
(* the middle of a direct chain nor on the feature a sliced-output wrapper *)
(* wraps, and an entry for such a node does not change the outcome.        *)
C10_OverrideEndsRecursion ==
    Ran =>
        /\ \A n \in Range(description.visited) :
             IsKeyed(feature_descriptions, n, Features[n].unique_name) =>
                /\ generate_description(n, feature_descriptions, primitive_templates)
                     = Returned(Looked(feature_descriptions, n, Features[n].unique_name),
                                <<n>>, <<>>)
                /\ Below(n) \cap Range(description.visited) = {}
        /\ Skipped(feature) \cap Range(description.visited) = {}
        /\ description = generate_description(
                             feature,
                             WithoutEntriesOf(feature_descriptions, Skipped(feature)),
                             primitive_templates)

C10_Witness ==
    /\ Ran /\ description.err = ""
    /\ Len(description.visited) >= 2
    /\ IsKeyed(feature_descriptions, description.visited[2],
               Features[description.visited[2]].unique_name)
    /\ Features[description.visited[2]].kind # "identity"

=============================================================================
